---- MODULE Spec2Model ----
(***************************************************************************)
(* Model of the Rigol DHO914S driver: the retrying transport primitives    *)
(* (write / query / query_binary under retry_on_failure) and the chunked   *)
(* screenshot capture (RigolDHO914S.take_screenshot).                      *)
(*                                                                         *)
(* Byte strings are kept run-length encoded: a buffer is a sequence of     *)
(* runs [b |-> byte value, n |-> repeat count], adjacent runs holding      *)
(* different bytes.  Lengths, offsets, searches and slices are computed on *)
(* byte positions, so a 300 KB accumulation buffer stays a short sequence. *)
(***************************************************************************)
EXTENDS Integers, Sequences, FiniteSets, TLC

VARIABLES
    pc,                  \* position of the single calling thread
    timeout,             \* instrument.timeout
    read_termination,    \* instrument.read_termination
    write_termination,   \* instrument.write_termination
    original_timeout,    \* take_screenshot local
    original_read_term,  \* take_screenshot local
    original_write_term, \* take_screenshot local
    image_data,          \* take_screenshot local: accumulated bytes
    attempt,             \* loop index (read loop, retry loop)
    filler_len,          \* size of the noise chunks the device sends in this call
    final_image,         \* take_screenshot local: bytes handed to the file
    file,                \* content of the output file, NoFile while not written
    result,              \* outcome of the call that ended last
    oplog,               \* per call: connection operations issued, in order
    end_cause,           \* per capture: what ended the read loop
    func,                \* transport call: which decorated method runs
    last_exception,      \* retry wrapper local
    errs,                \* transport call: errors of the attempts made so far
    sleeps,              \* transport call: delays taken so far
    entry_conn,          \* history: the connection settings when the call began
    cmd,                 \* the command of the write/query a method has in progress
    wpc,                 \* position of the thread inside the waveform functions
    channel,             \* get_waveform_data argument
    points,              \* get_waveform_data argument
    preamble_str,        \* get_waveform_data local: answer to WAV:PRE?
    preamble,            \* get_waveform_data local: the parsed preamble
    raw_data,            \* get_waveform_data local: answer to WAV:DATA?
    voltage_data,        \* get_waveform_data local
    time_data,           \* get_waveform_data local
    wave_result,         \* outcome of get_waveform_data
    wavelog,             \* per get_waveform_data call: commands completed
    lpc,                 \* position of the thread in the object's life cycle
    connection_type,     \* self.connection_type
    resource_string,     \* self.resource_string
    ip_address,          \* self.ip_address
    world,               \* the installation and the bus: what the constructor meets
    instrument,          \* self.instrument
    resource_manager,    \* self.resource_manager
    link_result,         \* outcome of the constructor
    body                 \* how the body of the with statement ended

vars == <<pc, timeout, read_termination, write_termination, original_timeout,
          original_read_term, original_write_term, image_data, attempt,
          filler_len, final_image, file, result, oplog, end_cause, func,
          last_exception, errs, sleeps, entry_conn, cmd, wpc, channel, points,
          preamble_str, preamble, raw_data, voltage_data, time_data,
          wave_result, wavelog, lpc, connection_type, resource_string,
          ip_address, world, instrument, resource_manager, link_result, body>>

conn == <<timeout, read_termination, write_termination>>
saved == <<original_timeout, original_read_term, original_write_term>>
shot == <<image_data, filler_len, final_image, file, end_cause>>
retry == <<func, last_exception, errs, sleeps>>
wave == <<wpc, channel, points, preamble_str, preamble, raw_data,
          voltage_data, time_data, wave_result, wavelog>>
link == <<lpc, connection_type, resource_string, ip_address, world,
          instrument, resource_manager, link_result, body>>
ext == <<cmd, wave, link>>

----------------------------------------------------------------------------
(* Byte strings *)

None == "None"
LF == "LF"
NoFile == [exists |-> FALSE, data |-> <<>>]
Unbound == "Unbound"

Run(b, n) == [b |-> b, n |-> n]

\* a + b on bytes objects
BCat(a, b) ==
    IF a = <<>> THEN b
    ELSE IF b = <<>> THEN a
    ELSE IF a[Len(a)].b = b[1].b
         THEN SubSeq(a, 1, Len(a) - 1)
                \o <<Run(b[1].b, a[Len(a)].n + b[1].n)>>
                \o SubSeq(b, 2, Len(b))
         ELSE a \o b

RECURSIVE FromBytes(_)
\* the bytes object holding the byte values of s
FromBytes(s) ==
    IF s = <<>> THEN <<>>
    ELSE BCat(<<Run(s[1], 1)>>, FromBytes(Tail(s)))

RECURSIVE BLen(_)
\* len(buf)
BLen(buf) == IF buf = <<>> THEN 0 ELSE buf[1].n + BLen(Tail(buf))

\* pat (a plain byte sequence whose neighbouring bytes differ, of length >= 2)
\* occurs in buf with its first byte being the last byte of run i
MatchAtRun(buf, pat, i) ==
    /\ i + Len(pat) - 1 <= Len(buf)
    /\ \A k \in 1..Len(pat) :
          /\ buf[i + k - 1].b = pat[k]
          /\ (1 < k /\ k < Len(pat)) => buf[i + k - 1].n = 1

\* pat in buf
In(pat, buf) == \E i \in 1..Len(buf) : MatchAtRun(buf, pat, i)

\* buf.rfind(pat): byte offset of the last occurrence, -1 when there is none
rfind(buf, pat) ==
    IF ~In(pat, buf) THEN -1
    ELSE LET i == CHOOSE j \in 1..Len(buf) :
                     /\ MatchAtRun(buf, pat, j)
                     /\ \A h \in (j + 1)..Len(buf) : ~MatchAtRun(buf, pat, h)
         IN BLen(SubSeq(buf, 1, i)) - 1

\* buf.find(pat): byte offset of the first occurrence, -1 when there is none
find(buf, pat) ==
    IF ~In(pat, buf) THEN -1
    ELSE LET i == CHOOSE j \in 1..Len(buf) :
                     /\ MatchAtRun(buf, pat, j)
                     /\ \A h \in 1..(j - 1) : ~MatchAtRun(buf, pat, h)
         IN BLen(SubSeq(buf, 1, i)) - 1

RECURSIVE SliceFrom(_, _)
\* buf[p:] for p >= 0
SliceFrom(buf, p) ==
    IF p <= 0 \/ buf = <<>> THEN buf
    ELSE IF buf[1].n <= p THEN SliceFrom(Tail(buf), p - buf[1].n)
    ELSE <<Run(buf[1].b, buf[1].n - p)>> \o Tail(buf)

RECURSIVE SliceTo(_, _)
\* buf[:p] for p >= 0
SliceTo(buf, p) ==
    IF p <= 0 \/ buf = <<>> THEN <<>>
    ELSE IF buf[1].n <= p THEN <<buf[1]>> \o SliceTo(Tail(buf), p - buf[1].n)
    ELSE <<Run(buf[1].b, p)>>

----------------------------------------------------------------------------
(* Program constants *)

max_retries == 3

\* one iteration fewer
max_attempts_short == 300 - 1

\* one iteration more
max_attempts_more == 300 + 1

max_attempts == 300
chunk_size == 1024

\* accepts payloads of half the size
MinImageSize_low == 1000 - 500

MinImageSize == 1000
BinaryTimeout == 17000
DefaultTimeout == 10000

PNGSignature == <<137, 80, 78, 71>>
IENDMarker == <<73, 69, 78, 68, 174, 66, 96, 130>>

(* Bounds of the environment *)

\* special (non-noise) chunks arrive only during the first MaxBurst reads
MaxBurst == 3
\* length of the short noise chunks of a slow stream
ShortChunk == 3

----------------------------------------------------------------------------
(* Environment: what the instrument and the file system may answer *)

\* timeout values the constructor may have been given
Timeouts == {DefaultTimeout, 2000}

\* errors pyvisa raises from an instrument operation
IoErrors == {"VI_ERROR_TMO", "VI_ERROR_IO"}

\* every error of a read is taken for a timeout
AlwaysTimeout(e) == TRUE

\* no error is taken for a timeout
NeverTimeout(e) == FALSE

\* 'timeout' in str(e).lower()
IsTimeout(e) == e = "VI_ERROR_TMO"

Noise(n) == <<Run(0, n)>>

NoiseOnly(buf) == \A i \in 1..Len(buf) : buf[i].b = 0

FillerLens == {ShortChunk, chunk_size}

\* the non-noise chunks a read may return
SpecialChunks ==
    { FromBytes(PNGSignature),
      FromBytes(SubSeq(PNGSignature, 1, 2)),
      FromBytes(SubSeq(PNGSignature, 3, 4)),
      FromBytes(IENDMarker),
      FromBytes(SubSeq(IENDMarker, 1, 4)),
      FromBytes(SubSeq(IENDMarker, 5, 8)) }

\* the non-empty chunks read_bytes(chunk_size) may return at this point: any
\* chunk during the first MaxBurst reads, after that only more noise on a
\* stream that has carried nothing but noise
ChunksAvailable ==
    IF attempt < MaxBurst THEN SpecialChunks \cup {Noise(filler_len)}
    ELSE IF NoiseOnly(image_data) THEN {Noise(filler_len)}
    ELSE {}

\* one entry of the per-call log of connection operations
Op(name, arg, outcome, value) ==
    [op |-> name, arg |-> arg, outcome |-> outcome, value |-> value,
     term |-> read_termination]

CommandError(cause) == [kind |-> "raised", exc |-> "CommandError", cause |-> cause]
Complete == [kind |-> "returned", value |-> [t |-> "None"]]
NoResult == [kind |-> "none"]
NoException == [kind |-> "None"]

----------------------------------------------------------------------------
(* Text and numbers.  A str is a sequence of one-character strings.  A     *)
(* float is kept as an exact decimal [m |-> mantissa, e |-> exponent],     *)
(* standing for m * 10^e, with m not divisible by 10 unless it is 0;      *)
(* binary rounding of float64 is not represented.                          *)

\* the value of a decimal digit
DigitValue(c) == CHOOSE d \in 0..9 : ToString(d) = c

\* a non-empty run of decimal digits
IsDigits(s) ==
    s # <<>> /\ \A i \in 1..Len(s) : \E d \in 0..9 : ToString(d) = s[i]

RECURSIVE NatValue(_)
\* the number a non-empty run of decimal digits writes
NatValue(s) ==
    IF s = <<>> THEN 0
    ELSE NatValue(SubSeq(s, 1, Len(s) - 1)) * 10 + DigitValue(s[Len(s)])

RECURSIVE Pow(_, _)
\* b to the power n
Pow(b, n) == IF n <= 0 THEN 1 ELSE b * Pow(b, n - 1)

RECURSIVE Dec(_, _)
\* the decimal m * 10^e in normal form
Dec(m, e) ==
    IF m = 0 THEN [m |-> 0, e |-> 0]
    ELSE IF m % 10 = 0 THEN Dec(m \div 10, e + 1)
    ELSE [m |-> m, e |-> e]

\* the mantissa of a at exponent e <= a.e
Scaled(a, e) == a.m * Pow(10, a.e - e)

DecAdd(a, b) ==
    LET e == IF a.e < b.e THEN a.e ELSE b.e
    IN Dec(Scaled(a, e) + Scaled(b, e), e)

\* k * a for an integer k
DecTimes(k, a) == Dec(k * a.m, a.e)

DecLess(a, b) ==
    LET e == IF a.e < b.e THEN a.e ELSE b.e
    IN Scaled(a, e) < Scaled(b, e)

Whitespace == {" ", "\n", "\r", "\t"}

RECURSIVE lstrip(_)
lstrip(s) ==
    IF s # <<>> /\ s[1] \in Whitespace THEN lstrip(Tail(s)) ELSE s

RECURSIVE rstrip(_)
rstrip(s) ==
    IF s # <<>> /\ s[Len(s)] \in Whitespace
    THEN rstrip(SubSeq(s, 1, Len(s) - 1)) ELSE s

\* str.strip()
strip(s) == lstrip(rstrip(s))

\* index of the first sep in s, 0 when there is none
IndexOf(s, sep) ==
    IF \E i \in 1..Len(s) : s[i] = sep
    THEN CHOOSE i \in 1..Len(s) :
            s[i] = sep /\ \A j \in 1..(i - 1) : s[j] # sep
    ELSE 0

RECURSIVE split(_, _)
\* s.split(sep) for a one-character sep
split(s, sep) ==
    LET i == IndexOf(s, sep) IN
    IF i = 0 THEN <<s>>
    ELSE <<SubSeq(s, 1, i - 1)>> \o split(SubSeq(s, i + 1, Len(s)), sep)

RECURSIVE joinstr(_, _)
\* sep.join(parts)
joinstr(parts, sep) ==
    IF parts = <<>> THEN <<>>
    ELSE IF Len(parts) = 1 THEN parts[1]
    ELSE parts[1] \o <<sep>> \o joinstr(Tail(parts), sep)

ParseFailed == [ok |-> FALSE]
Parsed(v) == [ok |-> TRUE, v |-> v]

\* the text without its sign, and the sign
Unsigned(t) == IF t # <<>> /\ t[1] \in {"+", "-"} THEN Tail(t) ELSE t
SignOf(t) == IF t # <<>> /\ t[1] = "-" THEN -1 ELSE 1

\* int(text): surrounding whitespace, an optional sign, decimal digits
int(text) ==
    LET t == strip(text) IN
    IF IsDigits(Unsigned(t))
    THEN Parsed(SignOf(t) * NatValue(Unsigned(t)))
    ELSE ParseFailed

\* the decimal written by digits [. digits], by digits . or by . digits
Mantissa(t) ==
    LET p == IndexOf(t, ".")
        whole == IF p = 0 THEN t ELSE SubSeq(t, 1, p - 1)
        frac == IF p = 0 THEN <<>> ELSE SubSeq(t, p + 1, Len(t))
    IN IF /\ (whole = <<>> \/ IsDigits(whole))
          /\ (frac = <<>> \/ IsDigits(frac))
          /\ whole \o frac # <<>>
       THEN Parsed(Dec(NatValue(whole \o frac), 0 - Len(frac)))
       ELSE ParseFailed

\* float(text): surrounding whitespace, an optional sign, a decimal and an
\* optional exponent  e [sign] digits  (inf and nan are not represented)
float(text) ==
    LET t == Unsigned(strip(text))
        sign == SignOf(strip(text))
        x == IF IndexOf(t, "e") # 0 THEN IndexOf(t, "e") ELSE IndexOf(t, "E")
        mant == Mantissa(IF x = 0 THEN t ELSE SubSeq(t, 1, x - 1))
        expo == IF x = 0 THEN Parsed(0) ELSE int(SubSeq(t, x + 1, Len(t)))
        exptext == IF x = 0 THEN <<>> ELSE SubSeq(t, x + 1, Len(t))
    IN IF mant.ok /\ expo.ok /\ exptext = strip(exptext)
       THEN Parsed(Dec(sign * mant.v.m, mant.v.e + expo.v))
       ELSE ParseFailed

----------------------------------------------------------------------------
(* utils.py: the waveform preamble, the samples and the time axis *)

ValueError(msg) == [kind |-> "raised", exc |-> "ValueError", cause |-> msg]
OverflowError(msg) == [kind |-> "raised", exc |-> "OverflowError", cause |-> msg]
\* return v
Value(v) == [kind |-> "returned", value |-> v]

\* the positions (from 1) of the preamble fields read with int(); the others
\* are read with float()
IntFields == {1, 2, 3, 4, 7, 10}

\* if len(parts) < 10
MinFields == 10

\* the value of field i, read with its parser
Field(parts, i) ==
    IF i \in IntFields THEN int(parts[i]) ELSE float(parts[i])

\* fields 3 and 4 change places
PreambleDictSwapped(f) ==
    [format |-> f[1], type |-> f[2], points |-> f[4], count |-> f[3],
     x_increment |-> f[5], x_origin |-> f[6], x_reference |-> f[7],
     y_increment |-> f[8], y_origin |-> f[9], y_reference |-> f[10]]

\* the dictionary built from the values of the first ten fields
PreambleDict(f) ==
    [format |-> f[1], type |-> f[2], points |-> f[3], count |-> f[4],
     x_increment |-> f[5], x_origin |-> f[6], x_reference |-> f[7],
     y_increment |-> f[8], y_origin |-> f[9], y_reference |-> f[10]]

\* the outcome of parse_waveform_preamble(preamble_string): the dictionary, or
\* the ValueError of the length test or of the first field int() or float()
\* refuses
parse_waveform_preamble(preamble_string) ==
    LET parts == split(strip(preamble_string), ",") IN
    IF Len(parts) < MinFields THEN ValueError("Invalid preamble format")
    ELSE LET bad == {i \in 1..10 : ~Field(parts, i).ok}
             first == CHOOSE i \in bad : \A j \in bad : i <= j
         IN IF bad # {}
            THEN ValueError(IF first \in IntFields
                            THEN "invalid literal for int()"
                            ELSE "could not convert string to float")
            ELSE Value(PreambleDict([i \in 1..10 |-> Field(parts, i).v]))

RECURSIVE Expand(_)
\* the bytes of a bytes object, one by one
Expand(buf) ==
    IF buf = <<>> THEN <<>>
    ELSE [i \in 1..buf[1].n |-> buf[1].b] \o Expand(Tail(buf))

\* the value in [-2^(w-1), 2^(w-1)) congruent to n modulo 2^w
Wrap(n, w) == ((n + Pow(2, w - 1)) % Pow(2, w)) - Pow(2, w - 1)

InRange(n, w) == 0 - Pow(2, w - 1) <= n /\ n < Pow(2, w - 1)

\* np.frombuffer(raw_data, dtype=np.int8)
frombuffer_int8(bytes) == Value([i \in 1..Len(bytes) |-> Wrap(bytes[i], 8)])

\* np.frombuffer(raw_data, dtype=np.int16), on a little-endian machine
frombuffer_int16(bytes) ==
    IF Len(bytes) % 2 # 0
    THEN ValueError("buffer size must be a multiple of element size")
    ELSE Value([i \in 1..(Len(bytes) \div 2) |->
                        Wrap(bytes[2 * i - 1] + 256 * bytes[2 * i], 16)])

\* NumPy releases whose rules for  integer array - Python int  differ
NumPyVersions == {1, 2}

\* data_array - preamble['y_reference'] for one element c of an array of
\* w-bit integers.  A reference that fits the element type is converted to
\* it and the difference wraps; one that does not fit widens the result
\* under NumPy 1 and raises OverflowError under NumPy 2.
Subtract(c, ref, w, numpy) ==
    IF InRange(ref, w) THEN Value(Wrap(c - ref, w))
    ELSE IF numpy = 1 THEN Value(c - ref)
    ELSE OverflowError("Python integer out of bounds")

\* (d) * y_increment + y_origin
Scale(d, pre) == DecAdd(DecTimes(d, pre.y_increment), pre.y_origin)

\* bytes of one sample in the format, 0 for a format the function refuses
SampleWidth(format) == IF format = 0 THEN 1 ELSE IF format = 1 THEN 2 ELSE 0

\* format code 2 is taken for a binary format as well
SupportedWithAscii(format) == format \in {0, 1, 2}

\* the formats that do not reach the else branch
Supported(format) == format \in {0, 1}

\* the outcomes of convert_raw_data_to_voltage(raw_data, preamble)
convert_raw_data_to_voltage(raw, pre) ==
    LET data_array == IF pre.format = 0 THEN frombuffer_int8(Expand(raw))
                      ELSE frombuffer_int16(Expand(raw))
        w == 8 * SampleWidth(pre.format)
    IN IF ~Supported(pre.format)
       THEN {ValueError("Unsupported data format")}
       ELSE IF data_array.kind = "raised" THEN {data_array}
       ELSE { IF InRange(pre.y_reference, w) \/ numpy = 1
              THEN Value([i \in 1..Len(data_array.value) |->
                       Scale(Subtract(data_array.value[i], pre.y_reference,
                                      w, numpy).value, pre)])
              ELSE Subtract(0, pre.y_reference, w, numpy)
              : numpy \in NumPyVersions }

\* np.arange(points) counts down instead of up
arangeDown(n) == [i \in 1..(IF n > 0 THEN n ELSE 0) |-> 0 - (i - 1)]

\* np.arange(points)
arange(n) == [i \in 1..(IF n > 0 THEN n ELSE 0) |-> i - 1]

\* the outcome of create_time_array(preamble)
create_time_array(pre) ==
    Value([i \in 1..Len(arange(pre.points)) |->
                   DecAdd(DecTimes(arange(pre.points)[i], pre.x_increment),
                          pre.x_origin)])

----------------------------------------------------------------------------
(* Values of the object's attributes and of the waveform locals *)

NoCommand == ""
IntValue(n) == [t |-> "int", v |-> n]

\* pyvisa can be imported; a VISA backend loads; the number of Rigol USB
\* instruments on the bus; open_resource succeeds
World(pyvisa, backend, found, opens) ==
    [pyvisa |-> pyvisa, backend |-> backend, found |-> found, opens |-> opens]

\* no call of a waveform function is in progress
WaveIdle ==
    /\ wpc = "idle"
    /\ channel = 1
    /\ points = [t |-> "None"]
    /\ preamble_str = <<>>
    /\ preamble = NoResult
    /\ raw_data = <<>>
    /\ voltage_data = NoResult
    /\ time_data = NoResult
    /\ wave_result = NoResult
    /\ wavelog = <<>>

\* the attributes of an object whose constructor has returned
Connected ==
    /\ lpc = "connected"
    /\ connection_type = <<"u", "s", "b">>
    /\ resource_string = None
    /\ ip_address = None
    /\ world = World(TRUE, TRUE, 1, TRUE)
    /\ instrument = "open"
    /\ resource_manager = "open"
    /\ link_result = NoResult
    /\ body = "none"

----------------------------------------------------------------------------
(* Initial state: a constructed, connected RigolDHO914S *)

Init ==
    /\ pc = "idle"
    /\ timeout \in Timeouts
    /\ read_termination = LF
    /\ write_termination = LF
    /\ original_timeout = 0
    /\ original_read_term = Unbound
    /\ original_write_term = Unbound
    /\ image_data = <<>>
    /\ attempt = 0
    /\ filler_len = chunk_size
    /\ final_image = <<>>
    /\ file = NoFile
    /\ result = NoResult
    /\ oplog = <<>>
    /\ end_cause = "none"
    /\ func = "none"
    /\ last_exception = NoException
    /\ errs = <<>>
    /\ sleeps = 0
    /\ entry_conn = conn
    /\ cmd = NoCommand
    /\ WaveIdle
    /\ Connected

----------------------------------------------------------------------------
(* take_screenshot *)

\* leaves the connection in binary mode
RestoreOnErrorPartial ==
    /\ timeout' = original_timeout
    /\ write_termination' = original_write_term
    /\ UNCHANGED read_termination

\* the except clause of take_screenshot: put the saved settings back
RestoreOnError ==
    /\ timeout' = original_timeout
    /\ read_termination' = original_read_term
    /\ write_termination' = original_write_term

\* a failed command is issued again, as under retry_on_failure
FailCaptureRetried(cause) ==
    IF cause \in {"cls_write", "opc_query", "request_write"}
       /\ Len(oplog) < max_retries
    THEN UNCHANGED <<pc, conn, result>>
    ELSE /\ RestoreOnError
         /\ result' = CommandError(cause)
         /\ pc' = "done"

\* an exception inside the try block: restore, then raise CommandError
FailCapture(cause) ==
    /\ RestoreOnError
    /\ result' = CommandError(cause)
    /\ pc' = "done"

\* the restore that follows the read loop
RestoreSettings ==
    /\ timeout' = original_timeout
    /\ read_termination' = original_read_term
    /\ write_termination' = original_write_term

\* entry: save the connection settings, switch to binary mode
TakeScreenshot ==
    /\ pc = "idle"
    /\ original_timeout' = timeout
    /\ original_read_term' = read_termination
    /\ original_write_term' = write_termination
    /\ timeout' = BinaryTimeout
    /\ read_termination' = None
    /\ write_termination' = LF
    /\ \E n \in FillerLens : filler_len' = n
    /\ image_data' = <<>>
    /\ final_image' = <<>>
    /\ file' = NoFile
    /\ end_cause' = "none"
    /\ attempt' = 0
    /\ oplog' = <<>>
    /\ result' = NoResult
    /\ pc' = "cls"
    /\ entry_conn' = conn
    /\ UNCHANGED retry
    /\ UNCHANGED ext

\* self.instrument.write('*CLS')
WriteCLS ==
    /\ pc = "cls"
    /\ \/ /\ oplog' = Append(oplog, Op("write", "*CLS", "ok", None))
          /\ pc' = "opc"
          /\ UNCHANGED <<conn, result>>
       \/ /\ oplog' = Append(oplog, Op("write", "*CLS", "error", None))
          /\ FailCapture("cls_write")
    /\ UNCHANGED <<saved, shot, attempt, retry, entry_conn>>
    /\ UNCHANGED ext

\* opc = self.instrument.query('*OPC?'), then read_termination = None again
QueryOPC ==
    /\ pc = "opc"
    /\ \/ /\ oplog' = Append(oplog, Op("query", "*OPC?", "ok", None))
          /\ read_termination' = None
          /\ pc' = "request"
          /\ UNCHANGED <<timeout, write_termination, result>>
       \/ /\ oplog' = Append(oplog, Op("query", "*OPC?", "error", None))
          /\ FailCapture("opc_query")
    /\ UNCHANGED <<saved, shot, attempt, retry, entry_conn>>
    /\ UNCHANGED ext

\* self.instrument.write('DISP:DATA?'), image_data = b''
WriteRequest ==
    /\ pc = "request"
    /\ \/ /\ oplog' = Append(oplog, Op("write", "DISP:DATA?", "ok", None))
          /\ pc' = "reading"
          /\ UNCHANGED <<conn, result>>
       \/ /\ oplog' = Append(oplog, Op("write", "DISP:DATA?", "error", None))
          /\ FailCapture("request_write")
    /\ UNCHANGED <<saved, shot, attempt, retry, entry_conn>>
    /\ UNCHANGED ext

\* the signature and the end marker are looked for in the chunk just read
CompletePNGInChunk(buf) ==
    LET chunk == SliceFrom(buf, BLen(image_data))
    IN  In(PNGSignature, chunk) /\ In(IENDMarker, chunk)

\* the break condition of the read loop
CompletePNG(buf) == In(PNGSignature, buf) /\ In(IENDMarker, buf)

\* one iteration of  for attempt in range(max_attempts)
ReadChunk ==
    /\ pc = "reading"
    /\ attempt < max_attempts
    /\ \/ \E chunk \in ChunksAvailable :
             /\ oplog' = Append(oplog, Op("read_bytes", "", "data", None))
             /\ image_data' = BCat(image_data, chunk)
             /\ IF CompletePNG(image_data')
                THEN /\ pc' = "validate"
                     /\ end_cause' = "marker"
                     /\ UNCHANGED attempt
                ELSE /\ attempt' = attempt + 1
                     /\ pc' = IF attempt + 1 < max_attempts
                              THEN "reading" ELSE "validate"
                     /\ end_cause' = IF attempt + 1 < max_attempts
                                     THEN end_cause ELSE "bound"
             /\ UNCHANGED <<conn, result>>
       \/ /\ oplog' = Append(oplog, Op("read_bytes", "", "empty", None))
          /\ pc' = "validate"
          /\ end_cause' = "empty"
          /\ UNCHANGED <<conn, result, image_data, attempt>>
       \/ \E e \in IoErrors :
             /\ oplog' = Append(oplog, Op("read_bytes", "", e, None))
             /\ IF IsTimeout(e)
                THEN /\ pc' = "validate"
                     /\ end_cause' = "timeout"
                     /\ UNCHANGED <<conn, result>>
                ELSE /\ FailCapture("read_error")
                     /\ UNCHANGED end_cause
             /\ UNCHANGED <<image_data, attempt>>
    /\ UNCHANGED <<saved, filler_len, final_image, file, retry, entry_conn>>
    /\ UNCHANGED ext

\* the image cut out of the accumulated bytes
ExtractImage(buf) ==
    IF In(PNGSignature, buf)
    THEN SliceFrom(buf, find(buf, PNGSignature))
    ELSE buf

\* the output file is opened before the size of the buffer is checked
ValidateOpensFile ==
    /\ pc = "validate"
    /\ RestoreSettings
    /\ file' = [exists |-> TRUE, data |-> <<>>]
    /\ IF BLen(image_data) < MinImageSize
       THEN /\ result' = CommandError("too_small")
            /\ pc' = "done"
            /\ UNCHANGED final_image
       ELSE /\ final_image' = ExtractImage(image_data)
            /\ pc' = "save"
            /\ UNCHANGED result
    /\ UNCHANGED <<saved, image_data, filler_len, end_cause, attempt,
                   oplog, retry, entry_conn>>
    /\ UNCHANGED ext

\* a buffer found too small sends the call back to the read loop
ValidateResumesReading ==
    /\ pc = "validate"
    /\ RestoreSettings
    /\ IF BLen(image_data) < MinImageSize
       THEN /\ pc' = "reading"
            /\ UNCHANGED <<final_image, result>>
       ELSE /\ final_image' = ExtractImage(image_data)
            /\ pc' = "save"
            /\ UNCHANGED result
    /\ UNCHANGED <<saved, image_data, filler_len, file, end_cause, attempt,
                   oplog, retry, entry_conn>>
    /\ UNCHANGED ext

\* after the loop: restore the settings, check the size, extract the image.
\* The raise of the size check runs the except clause, which assigns the
\* settings the values they were just given.
Validate ==
    /\ pc = "validate"
    /\ RestoreSettings
    /\ IF BLen(image_data) < MinImageSize
       THEN /\ result' = CommandError("too_small")
            /\ pc' = "done"
            /\ UNCHANGED final_image
       ELSE /\ final_image' = ExtractImage(image_data)
            /\ pc' = "save"
            /\ UNCHANGED result
    /\ UNCHANGED <<saved, image_data, filler_len, file, end_cause, attempt,
                   oplog, retry, entry_conn>>
    /\ UNCHANGED ext

\* with open(filename, 'wb') as f: f.write(final_image)
SaveFile ==
    /\ pc = "save"
    /\ \/ /\ file' = [exists |-> TRUE, data |-> final_image]
          /\ result' = Complete
          /\ pc' = "done"
          /\ UNCHANGED conn
       \/ /\ file' \in {file, [exists |-> TRUE, data |-> <<>>]}
          /\ FailCapture("file_write")
    /\ UNCHANGED <<saved, image_data, filler_len, final_image, end_cause,
                   attempt, oplog, retry, entry_conn>>
    /\ UNCHANGED ext

\* the call has returned or raised; the caller goes on
Return ==
    /\ pc = "done"
    /\ pc' = "idle"
    /\ original_timeout' = 0
    /\ original_read_term' = Unbound
    /\ original_write_term' = Unbound
    /\ image_data' = <<>>
    /\ final_image' = <<>>
    /\ filler_len' = chunk_size
    /\ file' = NoFile
    /\ end_cause' = "none"
    /\ attempt' = 0
    /\ oplog' = <<>>
    /\ result' = NoResult
    /\ func' = "none"
    /\ last_exception' = NoException
    /\ errs' = <<>>
    /\ sleeps' = 0
    /\ UNCHANGED <<conn, entry_conn>>
    /\ UNCHANGED ext

----------------------------------------------------------------------------
(* write / query / query_binary under @retry_on_failure(max_retries=3) *)

Methods == {"write", "query", "query_binary"}

RECURSIVE join(_)
\* b''.join(parts)
join(parts) ==
    IF parts = <<>> THEN <<>> ELSE BCat(parts[1], join(Tail(parts)))

NoneValue == [t |-> "None"]
StrValue(s) == [t |-> "str", s |-> s]
BytesValue(b) == [t |-> "bytes", b |-> b]

\* what the instrument may answer to instrument.write / query /
\* query_binary_values(datatype='s')
RawResponses(m) ==
    IF m = "write" THEN {NoneValue}
    ELSE IF m = "query"
    THEN {StrValue(<<"1">>), StrValue(<<" ", "0", "\n">>)}
    ELSE {[t |-> "list", l |-> <<>>],
          [t |-> "list", l |-> <<FromBytes(<<1, 2>>), FromBytes(<<2, 3>>)>>]}

\* the instrument operation a method issues
InstrumentOp(m) ==
    IF m = "write" THEN "write"
    ELSE IF m = "query" THEN "query" ELSE "query_binary_values"

\* the value the body of the method returns from the instrument's answer
MethodReturn(m, raw) ==
    IF m = "write" THEN NoneValue
    ELSE IF m = "query" THEN StrValue(strip(raw.s))
    ELSE BytesValue(join(raw.l))

\* raise e
Raised(e) == e
Returned(v) == [kind |-> "returned", value |-> v]

\* keeps the first exception instead of the latest
RememberFirst(last, e) == IF last = NoException THEN e ELSE last

\* except Exception as e: last_exception = e
Remember(last, e) == e

\* calls func and drops what it returned
WrapperReturnsNothing(v) == Returned(NoneValue)

\* the wrapper's  return func(*args, **kwargs)
WrapperReturn(v) == Returned(v)

\* one retry too many
RetryAgainOffByOne(a) == a <= max_retries

\* after a failed attempt number a: sleep and go round again?  Line 214 asks
\* a < max_retries, line 209 ends the loop after index max_retries
RetryAgain(a) == a < max_retries /\ a + 1 < max_retries + 1

\* a caller invokes scope.write(cmd), scope.query(cmd) or scope.query_binary(cmd)
CallTransport ==
    /\ pc = "idle"
    /\ \E m \in Methods : func' = m
    /\ attempt' = 0
    /\ last_exception' = NoException
    /\ errs' = <<>>
    /\ sleeps' = 0
    /\ oplog' = <<>>
    /\ result' = NoResult
    /\ pc' = "try"
    /\ entry_conn' = conn
    /\ UNCHANGED <<conn, saved, shot>>
    /\ UNCHANGED ext

\* one iteration of  for attempt in range(max_retries + 1): the method body
\* runs once against the instrument
Attempt ==
    /\ pc = "try"
    /\ \/ \E raw \in RawResponses(func) :
             /\ oplog' = Append(oplog, Op(InstrumentOp(func), "cmd", "ok", raw))
             /\ result' = WrapperReturn(MethodReturn(func, raw))
             /\ pc' = "done"
             /\ UNCHANGED <<last_exception, errs>>
       \/ \E e \in IoErrors :
             /\ oplog' = Append(oplog, Op(InstrumentOp(func), "cmd", e, NoneValue))
             /\ last_exception' = Remember(last_exception, CommandError(e))
             /\ errs' = Append(errs, CommandError(e))
             /\ IF RetryAgain(attempt)
                THEN /\ pc' = "sleep"
                     /\ UNCHANGED result
                ELSE /\ result' = Raised(last_exception')
                     /\ pc' = "done"
    /\ UNCHANGED <<conn, saved, shot, attempt, func, sleeps, entry_conn>>
    /\ UNCHANGED ext

\* time.sleep(delay); continue
Sleep ==
    /\ pc = "sleep"
    /\ sleeps' = sleeps + 1
    /\ attempt' = attempt + 1
    /\ pc' = "try"
    /\ UNCHANGED <<conn, saved, shot, func, last_exception, errs, oplog, result,
                   entry_conn>>
    /\ UNCHANGED ext

Transport ==
    \/ CallTransport
    \/ Attempt
    \/ Sleep

Capture ==
    \/ TakeScreenshot
    \/ WriteCLS
    \/ QueryOPC
    \/ WriteRequest
    \/ ReadChunk
    \/ Validate
    \/ SaveFile

Next ==
    \/ Transport
    \/ Capture
    \/ Return

Spec == Init /\ [][Next]_vars

\* the calling thread keeps running: every instrument operation returns or
\* raises within the connection's timeout
FairSpec == Spec /\ WF_vars(Next)

----------------------------------------------------------------------------
(* parse_waveform_preamble, convert_raw_data_to_voltage and                *)
(* create_time_array applied to the values the instrument can send        *)

MaxFields == 12
MaxRaw == 2
MaxPoints == 2

\* no call of the object's methods is in progress
Quiet ==
    /\ pc = "idle"
    /\ original_timeout = 0
    /\ original_read_term = Unbound
    /\ original_write_term = Unbound
    /\ image_data = <<>>
    /\ attempt = 0
    /\ filler_len = chunk_size
    /\ final_image = <<>>
    /\ file = NoFile
    /\ result = NoResult
    /\ oplog = <<>>
    /\ end_cause = "none"
    /\ func = "none"
    /\ last_exception = NoException
    /\ errs = <<>>
    /\ sleeps = 0
    /\ entry_conn = conn
    /\ cmd = NoCommand

\* a connected object with the default timeout
Idle ==
    /\ timeout = DefaultTimeout
    /\ read_termination = LF
    /\ write_termination = LF
    /\ Quiet

\* the fields of a preamble of four 8-bit points, 1e-6 s apart, 0.01 V a step
BaseFields ==
    << <<"0">>, <<"0">>, <<"4">>, <<"1">>, <<"1", "e", "-", "6">>, <<"0">>,
       <<"0">>, <<"0", ".", "0", "1">>, <<"0">>, <<"0">> >>

\* texts a field may carry
FieldTexts ==
    { <<"1">>, <<"2">>, <<"-", "3">>, <<" ", "+", "5">>, <<"1", ".", "5">>,
      <<"2", "E", "-", "3">>, <<".", "5">>, <<>>, <<"x">>, <<"1", " ", "2">>,
      <<"-">>, <<"1", "e">> }

\* the answer to WAV:PRE? that carries the fields
Wire(fields) == joinstr(fields, ",") \o <<"\n">>

\* answers to WAV:PRE?: the base preamble with one field replaced, and
\* preambles of 0 to MaxFields fields
PreambleStrings ==
    { Wire([BaseFields EXCEPT ![i] = t]) : i \in 1..10, t \in FieldTexts }
    \cup { Wire([k \in 1..n |->
                    IF k <= Len(BaseFields) THEN BaseFields[k] ELSE <<"0">>]) :
             n \in 0..MaxFields }

ParseInit ==
    /\ Idle
    /\ Connected
    /\ wpc = "parse"
    /\ channel = 1
    /\ points = [t |-> "None"]
    /\ preamble_str \in PreambleStrings
    /\ preamble = NoResult
    /\ raw_data = <<>>
    /\ voltage_data = NoResult
    /\ time_data = NoResult
    /\ wave_result = NoResult
    /\ wavelog = <<>>

\* preamble = parse_waveform_preamble(preamble_str)
ParsePreamble ==
    /\ wpc = "parse"
    /\ preamble' = parse_waveform_preamble(preamble_str)
    /\ wpc' = "parsed"
    /\ UNCHANGED <<channel, points, preamble_str, raw_data, voltage_data,
                   time_data, wave_result, wavelog>>
    /\ UNCHANGED <<pc, conn, saved, shot, attempt, result, oplog, retry,
                   entry_conn, cmd, link>>

ParseSpec == ParseInit /\ [][ParsePreamble]_vars

\* the descriptor and the bytes of the four-point example
ExampleDescriptor == parse_waveform_preamble(Wire(BaseFields)).value
ExampleBytes == <<10, 246, 0, 127>>

RECURSIVE ByteSeqs(_)
\* the byte sequences of length n
ByteSeqs(n) ==
    IF n = 0 THEN {<<>>}
    ELSE {Append(s, b) : s \in ByteSeqs(n - 1), b \in {0, 127, 128, 246}}

\* binary blocks the instrument may send
RawBuffers ==
    {FromBytes(s) : s \in UNION {ByteSeqs(n) : n \in 0..MaxRaw}}
    \cup {FromBytes(ExampleBytes)}

YReferences == {-129, -1, 0, 1, 128}

\* descriptors the parser can produce
Descriptors ==
    { [ExampleDescriptor EXCEPT
          !.format = f, !.points = n, !.x_increment = xi, !.x_origin = xo,
          !.y_origin = yo, !.y_reference = yr] :
        f \in {0, 1, 2}, n \in -1..MaxPoints,
        xi \in {Dec(1, -6), Dec(0, 0), Dec(-1, -6)},
        xo \in {Dec(0, 0), Dec(-5, -6)},
        yo \in {Dec(0, 0), Dec(5, -1)}, yr \in YReferences }
    \cup {ExampleDescriptor}

DecodeInit ==
    /\ Idle
    /\ Connected
    /\ wpc = "decode"
    /\ channel = 1
    /\ points = [t |-> "None"]
    /\ preamble_str = <<>>
    /\ preamble \in {Value(d) : d \in Descriptors}
    /\ raw_data \in RawBuffers
    /\ voltage_data = NoResult
    /\ time_data = NoResult
    /\ wave_result = NoResult
    /\ wavelog = <<>>

\* voltage_data = convert_raw_data_to_voltage(raw_data, preamble)
ConvertRawData ==
    /\ wpc = "decode"
    /\ voltage_data = NoResult
    /\ voltage_data' \in convert_raw_data_to_voltage(raw_data, preamble.value)
    /\ UNCHANGED <<wpc, channel, points, preamble_str, preamble, raw_data,
                   time_data, wave_result, wavelog>>
    /\ UNCHANGED <<pc, conn, saved, shot, attempt, result, oplog, retry,
                   entry_conn, cmd, link>>

\* time_data = create_time_array(preamble)
CreateTimeArray ==
    /\ wpc = "decode"
    /\ time_data = NoResult
    /\ time_data' = create_time_array(preamble.value)
    /\ UNCHANGED <<wpc, channel, points, preamble_str, preamble, raw_data,
                   voltage_data, wave_result, wavelog>>
    /\ UNCHANGED <<pc, conn, saved, shot, attempt, result, oplog, retry,
                   entry_conn, cmd, link>>

DecodeNext ==
    \/ ConvertRawData
    \/ CreateTimeArray

DecodeSpec == DecodeInit /\ [][DecodeNext]_vars

----------------------------------------------------------------------------
(* get_waveform_data, and the write / query / query_binary calls made     *)
(* from inside a method of the object                                     *)

DataError(e) == [kind |-> "raised", exc |-> "DataError", cause |-> e]

\* answers of the instrument to WAV:PRE?
PreambleAnswers ==
    { Wire([BaseFields EXCEPT ![1] = f, ![3] = n]) :
        f \in { <<"0">>, <<"1">>, <<"2">> },
        n \in { <<"4">>, <<"2">>, <<"0">>, <<"x">> } }
    \cup { Wire(<<BaseFields[1], BaseFields[2]>>) }

\* answers of the instrument to WAV:DATA? as query_binary_values returns them
DataAnswers ==
    { [t |-> "list", l |-> <<FromBytes([i \in 1..n |-> 128])>>] :
        n \in 0..MaxRaw }
    \cup { [t |-> "list", l |-> <<FromBytes(ExampleBytes)>>] }
    \cup { [t |-> "list", l |-> <<FromBytes(<<0>>), FromBytes(<<127>>)>>] }

\* answers of the instrument to *IDN?: one naming this model, one naming
\* another
Identities ==
    { <<"R", "I", "G", "O", "L", ",", "D", "H", "O", "9", "1", "4", "S", "\n">>,
      <<"R", "I", "G", "O", "L", ",", "D", "S", "1", "0", "5", "4", "\n">> }

\* what the instrument may answer to the command
Answers(c) ==
    IF c = "WAV:PRE?" THEN { StrValue(s) : s \in PreambleAnswers }
    ELSE IF c = "WAV:DATA?" THEN DataAnswers
    ELSE IF c = "*IDN?" THEN { StrValue(s) : s \in Identities }
    ELSE { NoneValue }

\* self.write(c), self.query(c) or self.query_binary(c) is entered
NestedCall(m, c) ==
    /\ func' = m
    /\ cmd' = c
    /\ attempt' = 0
    /\ last_exception' = NoException
    /\ errs' = <<>>
    /\ sleeps' = 0
    /\ oplog' = <<>>
    /\ result' = NoResult
    /\ pc' = "call"

\* the method makes no further call
NoCall ==
    /\ func' = "none"
    /\ cmd' = NoCommand
    /\ attempt' = 0
    /\ last_exception' = NoException
    /\ errs' = <<>>
    /\ sleeps' = 0
    /\ oplog' = <<>>
    /\ result' = NoResult
    /\ pc' = "back"

\* one iteration of the retry loop around the method body, for the command
\* the method was given
CommandAttempt ==
    /\ pc = "call"
    /\ \/ \E raw \in Answers(cmd) :
             /\ oplog' = Append(oplog, Op(InstrumentOp(func), cmd, "ok", raw))
             /\ result' = WrapperReturn(MethodReturn(func, raw))
             /\ pc' = "back"
             /\ UNCHANGED <<last_exception, errs>>
       \/ \E e \in IoErrors :
             /\ oplog' = Append(oplog, Op(InstrumentOp(func), cmd, e, NoneValue))
             /\ last_exception' = Remember(last_exception, CommandError(e))
             /\ errs' = Append(errs, CommandError(e))
             /\ IF RetryAgain(attempt)
                THEN /\ pc' = "pause"
                     /\ UNCHANGED result
                ELSE /\ result' = Raised(last_exception')
                     /\ pc' = "back"
    /\ UNCHANGED <<conn, saved, shot, attempt, func, sleeps, entry_conn, cmd,
                   wave, link>>

\* time.sleep(delay); continue
CommandSleep ==
    /\ pc = "pause"
    /\ sleeps' = sleeps + 1
    /\ attempt' = attempt + 1
    /\ pc' = "call"
    /\ UNCHANGED <<conn, saved, shot, func, last_exception, errs, oplog, result,
                   entry_conn, cmd, wave, link>>

\* arguments callers pass
Channels == {0, 1, 4, 5}
PointsArgs == {NoneValue, IntValue(0), IntValue(2), IntValue(-1)}

\* validate_channel(channel) lets the channel through
ValidChannel(ch) == ~(ch < 1 \/ ch > 4)

\* if points is not None:
TruthyNotNone(p) == p.t = "int"

\* if points:
Truthy(p) == p.t = "int" /\ p.v # 0

\* data the parser or the decoder refuses is asked for again
WaveFailAsksAgain(e) ==
    IF e.exc = "ValueError"
    THEN /\ NestedCall("query", "WAV:PRE?")
         /\ wpc' = "preamble"
         /\ wave_result' = NoResult
    ELSE /\ wave_result' = DataError(e)
         /\ wpc' = "done"
         /\ NoCall

\* the except clause lets the exception through unchanged
WaveFailUnwrapped(e) ==
    /\ wave_result' = e
    /\ wpc' = "done"
    /\ NoCall

\* except Exception as e: raise DataError(...)
WaveFail(e) ==
    /\ wave_result' = DataError(e)
    /\ wpc' = "done"
    /\ NoCall

\* entry: validate the channel, then the first write
GetWaveformData ==
    /\ pc = "idle"
    /\ wpc = "idle"
    /\ \E ch \in Channels, p \in PointsArgs :
          /\ channel' = ch
          /\ points' = p
          /\ IF ValidChannel(ch)
             THEN /\ NestedCall("write", "WAV:SOUR CHAN" \o ToString(ch))
                  /\ wpc' = "source"
                  /\ wave_result' = NoResult
             ELSE /\ wave_result' =
                        ValueError("Channel must be an integer between 1 and 4")
                  /\ wpc' = "done"
                  /\ NoCall
    /\ preamble_str' = <<>>
    /\ preamble' = NoResult
    /\ raw_data' = <<>>
    /\ voltage_data' = NoResult
    /\ time_data' = NoResult
    /\ wavelog' = <<>>
    /\ UNCHANGED <<conn, saved, shot, entry_conn, link>>

\* a write has returned: the next command of the sequence
AfterWrite ==
    /\ pc = "back"
    /\ wpc \in {"source", "format", "mode", "start", "stop"}
    /\ wavelog' = Append(wavelog, [cmd |-> cmd, outcome |-> result.kind])
    /\ IF result.kind = "raised"
       THEN WaveFail(result)
       ELSE /\ wave_result' = NoResult
            /\ IF wpc = "source"
               THEN NestedCall("write", "WAV:FORM BYTE") /\ wpc' = "format"
               ELSE IF wpc = "format"
               THEN NestedCall("write", "WAV:MODE NORM") /\ wpc' = "mode"
               ELSE IF wpc = "mode" /\ Truthy(points)
               THEN NestedCall("write", "WAV:STAR 1") /\ wpc' = "start"
               ELSE IF wpc = "start"
               THEN /\ NestedCall("write", "WAV:STOP " \o ToString(points.v))
                    /\ wpc' = "stop"
               ELSE NestedCall("query", "WAV:PRE?") /\ wpc' = "preamble"
    /\ UNCHANGED <<channel, points, preamble_str, preamble, raw_data,
                   voltage_data, time_data>>
    /\ UNCHANGED <<conn, saved, shot, entry_conn, link>>

\* the preamble query has returned: parse the answer, ask for the data
AfterPreamble ==
    /\ pc = "back"
    /\ wpc = "preamble"
    /\ wavelog' = Append(wavelog, [cmd |-> cmd, outcome |-> result.kind])
    /\ IF result.kind = "raised"
       THEN /\ WaveFail(result)
            /\ UNCHANGED <<preamble_str, preamble>>
       ELSE /\ preamble_str' = result.value.s
            /\ preamble' = parse_waveform_preamble(preamble_str')
            /\ IF preamble'.kind = "raised"
               THEN WaveFail(preamble')
               ELSE /\ NestedCall("query_binary", "WAV:DATA?")
                    /\ wpc' = "data"
                    /\ wave_result' = NoResult
    /\ UNCHANGED <<channel, points, raw_data, voltage_data, time_data>>
    /\ UNCHANGED <<conn, saved, shot, entry_conn, link>>

\* the data query has returned: convert, build the time axis, return
AfterData ==
    /\ pc = "back"
    /\ wpc = "data"
    /\ wavelog' = Append(wavelog, [cmd |-> cmd, outcome |-> result.kind])
    /\ IF result.kind = "raised"
       THEN /\ WaveFail(result)
            /\ UNCHANGED <<raw_data, voltage_data, time_data>>
       ELSE /\ raw_data' = result.value.b
            /\ \E v \in convert_raw_data_to_voltage(raw_data', preamble.value) :
                  /\ voltage_data' = v
                  /\ IF v.kind = "raised"
                     THEN /\ WaveFail(v)
                          /\ UNCHANGED time_data
                     ELSE /\ time_data' = create_time_array(preamble.value)
                          /\ wave_result' =
                                Returned([time |-> time_data'.value,
                                          voltage |-> v.value,
                                          preamble |-> preamble.value])
                          /\ wpc' = "done"
                          /\ NoCall
    /\ UNCHANGED <<channel, points, preamble_str, preamble>>
    /\ UNCHANGED <<conn, saved, shot, entry_conn, link>>

\* get_waveform_data has returned or raised; the caller goes on
WaveReturn ==
    /\ wpc = "done"
    /\ pc = "back"
    /\ pc' = "idle"
    /\ wpc' = "idle"
    /\ channel' = 1
    /\ points' = NoneValue
    /\ preamble_str' = <<>>
    /\ preamble' = NoResult
    /\ raw_data' = <<>>
    /\ voltage_data' = NoResult
    /\ time_data' = NoResult
    /\ wave_result' = NoResult
    /\ wavelog' = <<>>
    /\ UNCHANGED <<conn, saved, shot, attempt, result, oplog, retry,
                   entry_conn, cmd, link>>

Waveform ==
    \/ GetWaveformData
    \/ CommandAttempt
    \/ CommandSleep
    \/ AfterWrite
    \/ AfterPreamble
    \/ AfterData
    \/ WaveReturn

WaveNext ==
    \/ Waveform
    \/ Capture
    \/ Return

\* the object with its waveform and screenshot requests
WaveSpec == Init /\ [][WaveNext]_vars

----------------------------------------------------------------------------
(* The constructor, close() and the with statement *)

MaxDevices == 2

ImportError(msg) == [kind |-> "raised", exc |-> "ImportError", cause |-> msg]
ConnectionError(e) == [kind |-> "raised", exc |-> "ConnectionError", cause |-> e]
VisaIOError(msg) == [kind |-> "raised", exc |-> "VisaIOError", cause |-> msg]

\* str.lower()
lower(s) ==
    LET upper ==
          <<"A", "B", "C", "D", "E", "F", "G", "H", "I", "J", "K", "L", "M",
            "N", "O", "P", "Q", "R", "S", "T", "U", "V", "W", "X", "Y", "Z">>
        small ==
          <<"a", "b", "c", "d", "e", "f", "g", "h", "i", "j", "k", "l", "m",
            "n", "o", "p", "q", "r", "s", "t", "u", "v", "w", "x", "y", "z">>
    IN [i \in 1..Len(s) |->
          IF \E k \in 1..Len(upper) : upper[k] = s[i]
          THEN small[CHOOSE k \in 1..Len(upper) : upper[k] = s[i]]
          ELSE s[i]]

\* sub in s
Contains(s, sub) ==
    \E i \in 0..(Len(s) - Len(sub)) : SubSeq(s, i + 1, i + Len(sub)) = sub

usb == <<"u", "s", "b">>
ethernet == <<"e", "t", "h", "e", "r", "n", "e", "t">>

\* arguments callers pass
ConnectionTypes ==
    { usb, <<"U", "S", "B">>, ethernet, <<"E", "t", "h", "e", "r", "n", "e", "t">>,
      <<"i", "n", "v", "a", "l", "i", "d">>, <<>> }
ResourceStrings == {None, "", "USB0::0x1AB1::0x044C::DHO9A000000001::INSTR"}
IpAddresses == {None, "", "192.168.1.100"}

\* the installations and buses the constructor may meet
Worlds ==
    { World(p, b, n, o) :
        p \in BOOLEAN, b \in BOOLEAN, n \in 0..MaxDevices, o \in BOOLEAN }

\* if resource_string: / if not ip_address:
Given(s) == s # None /\ s # ""

\* the constructor has not run yet
LinkInit ==
    /\ timeout = 0
    /\ read_termination = Unbound
    /\ write_termination = Unbound
    /\ Quiet
    /\ WaveIdle
    /\ lpc = "new"
    /\ connection_type \in ConnectionTypes
    /\ resource_string \in ResourceStrings
    /\ ip_address \in IpAddresses
    /\ world \in Worlds
    /\ instrument = None
    /\ resource_manager = None
    /\ link_result = NoResult
    /\ body = "none"

\* the body of the try block of _connect up to the instrument: the exception
\* it raises, or NoException when an instrument has been opened
ConnectBody(type, res, ip, w) ==
    IF ~w.backend THEN VisaIOError("no backend")
    ELSE IF type = usb
    THEN IF Given(res)
         THEN IF w.opens THEN NoException ELSE VisaIOError("open_resource")
         ELSE IF w.found = 0
              THEN ConnectionError("No Rigol USB devices found")
              ELSE IF w.opens THEN NoException ELSE VisaIOError("open_resource")
    ELSE IF type = ethernet
    THEN IF ~Given(ip)
         THEN ValueError("IP address is required for Ethernet connection")
         ELSE IF w.opens THEN NoException ELSE VisaIOError("open_resource")
    ELSE ValueError("Connection type must be 'usb' or 'ethernet'")

\* except Exception as e: raise ConnectionError(...)
ConnectFailed(e) == ConnectionError(e)

\* __init__: the attributes, _connect, and the entry into _verify_connection
Construct ==
    /\ lpc = "new"
    /\ pc = "idle"
    /\ IF ~world.pyvisa
       THEN /\ link_result' = ImportError("PyVISA is required")
            /\ lpc' = "failed"
            /\ UNCHANGED <<connection_type, instrument, resource_manager, conn,
                           pc, cmd, attempt, result, oplog, retry>>
       ELSE /\ connection_type' = lower(connection_type)
            /\ resource_manager' = IF world.backend THEN "open" ELSE None
            /\ LET e == ConnectBody(connection_type', resource_string,
                                    ip_address, world)
               IN IF e = NoException
                  THEN /\ instrument' = "open"
                       /\ \E t \in Timeouts : timeout' = t
                       /\ write_termination' = LF
                       /\ read_termination' = LF
                       /\ NestedCall("query", "*IDN?")
                       /\ lpc' = "verify"
                       /\ link_result' = NoResult
                  ELSE /\ instrument' = None
                       /\ link_result' = ConnectFailed(e)
                       /\ lpc' = "failed"
                       /\ UNCHANGED <<conn, pc, cmd, attempt, result, oplog,
                                      retry>>
    /\ UNCHANGED <<resource_string, ip_address, world, body>>
    /\ UNCHANGED <<saved, shot, entry_conn, wave>>

\* any answer naming Rigol is accepted
IdentityAcceptedLoosely(identity) ==
    Contains(identity, <<"R", "I", "G", "O", "L">>)

\* 'DHO914S' not in identity, negated
IdentityAccepted(identity) ==
    Contains(identity, <<"D", "H", "O", "9", "1", "4", "S">>)

\* _verify_connection after the identity query: the constructor returns the
\* object or raises
AfterIdentity ==
    /\ lpc = "verify"
    /\ pc = "back"
    /\ IF result.kind = "raised"
       THEN /\ link_result' = ConnectionError(result)
            /\ lpc' = "failed"
       ELSE IF ~IdentityAccepted(result.value.s)
       THEN /\ link_result' = ConnectionError(ConnectionError(
                                 "Connected device is not a DHO914S"))
            /\ lpc' = "failed"
       ELSE /\ link_result' = Returned([t |-> "RigolDHO914S"])
            /\ lpc' = "connected"
    /\ pc' = "idle"
    /\ UNCHANGED <<connection_type, resource_string, ip_address, world,
                   instrument, resource_manager, body>>
    /\ UNCHANGED <<conn, saved, shot, attempt, result, oplog, retry,
                   entry_conn, cmd, wave>>

\* the resource manager is left open
closeInstrumentOnly ==
    /\ instrument' = IF instrument # None THEN "closed" ELSE instrument
    /\ UNCHANGED resource_manager

\* close(): both close() calls return
close ==
    /\ instrument' = IF instrument # None THEN "closed" ELSE instrument
    /\ resource_manager' =
          IF resource_manager # None THEN "closed" ELSE resource_manager

\* with RigolDHO914S(...) as scope: __enter__ returns the object
Enter ==
    /\ lpc = "connected"
    /\ lpc' = "body"
    /\ UNCHANGED <<connection_type, resource_string, ip_address, world,
                   instrument, resource_manager, link_result, body>>
    /\ UNCHANGED <<pc, conn, saved, shot, attempt, result, oplog, retry,
                   entry_conn, cmd, wave>>

\* the body of the with statement ends, normally or by an exception:
\* __exit__ calls close() and returns None
Exit ==
    /\ lpc = "body"
    /\ \E how \in {"normal", "exception"} : body' = how
    /\ close
    /\ lpc' = "left"
    /\ UNCHANGED <<connection_type, resource_string, ip_address, world,
                   link_result>>
    /\ UNCHANGED <<pc, conn, saved, shot, attempt, result, oplog, retry,
                   entry_conn, cmd, wave>>

\* scope.close() called by the owner of the object
Close ==
    /\ lpc = "connected"
    /\ close
    /\ lpc' = "closed"
    /\ UNCHANGED <<connection_type, resource_string, ip_address, world,
                   link_result, body>>
    /\ UNCHANGED <<pc, conn, saved, shot, attempt, result, oplog, retry,
                   entry_conn, cmd, wave>>

LinkNext ==
    \/ Construct
    \/ CommandAttempt
    \/ CommandSleep
    \/ AfterIdentity
    \/ Enter
    \/ Exit
    \/ Close

LinkSpec == LinkInit /\ [][LinkNext]_vars

----------------------------------------------------------------------------
(* Claims about the retrying transport *)

InTransport == func # "none"

Failed(i) == oplog[i].outcome \in IoErrors

\* C1 as stated: a write, query or query_binary call invokes the connection
\* operation at most 3 times in total
C1_AtMostThreeInvocations ==
    InTransport => Len(oplog) <= 3

\* C1 amended: a write, query or query_binary call invokes the connection
\* operation, and only that operation, at most 4 times in total: the first
\* attempt plus 3 retries
C1_AtMostFourInvocations ==
    InTransport =>
        /\ Len(oplog) <= 4
        /\ \A i \in 1..Len(oplog) : oplog[i].op = InstrumentOp(func)

C1_Witness ==
    /\ InTransport
    /\ pc = "done"
    /\ Len(oplog) = 4
    /\ \A i \in 1..4 : Failed(i)

\* C7: when every attempt of a call has failed, the call raises the error of
\* the last attempt made and returns no value
C7_LastErrorRaised ==
    (InTransport /\ pc = "done" /\ \A i \in 1..Len(oplog) : Failed(i)) =>
        /\ result.kind = "raised"
        /\ result.exc = "CommandError"
        /\ result.cause = oplog[Len(oplog)].outcome

C7_Witness ==
    /\ InTransport
    /\ pc = "done"
    /\ \A i \in 1..Len(oplog) : Failed(i)
    /\ oplog[1].outcome # oplog[Len(oplog)].outcome
    /\ result.cause = oplog[Len(oplog)].outcome

\* C8: the first successful attempt ends the call: it is the last operation
\* issued, the call has returned what the method made of its answer, and the
\* only delays taken are those that followed the failed attempts before it
C8_FirstSuccessEndsCall ==
    InTransport =>
        \A i \in 1..Len(oplog) :
            oplog[i].outcome = "ok" =>
                /\ i = Len(oplog)
                /\ pc = "done"
                /\ sleeps = i - 1
                /\ \A j \in 1..(i - 1) : Failed(j)
                /\ result = Returned(MethodReturn(func, oplog[i].value))

C8_Witness ==
    /\ InTransport
    /\ pc = "done"
    /\ func = "query"
    /\ Len(oplog) = 2
    /\ oplog[2].outcome = "ok"
    /\ result = Returned(StrValue(<<"0">>))

----------------------------------------------------------------------------
(* Claims about take_screenshot *)

InCapture == func = "none" /\ pc # "idle"

Reads == Cardinality({i \in 1..Len(oplog) : oplog[i].op = "read_bytes"})

\* the read loop is over and the code after it has been reached
Accumulated == InCapture /\ end_cause # "none"

\* C2: when take_screenshot has ended, by whichever path, timeout, read
\* terminator and write terminator are what they were when it was called
C2_SettingsRestored ==
    (InCapture /\ pc = "done") => conn = entry_conn

C2_Witness ==
    /\ InCapture
    /\ pc = "done"
    /\ result = CommandError("read_error")
    /\ conn = entry_conn
    /\ timeout # BinaryTimeout
    /\ read_termination = LF

\* C3 as stated: when the chunk bound ends a signature-free accumulation, the
\* capture has made exactly 300 reads and fails with a size-exceeded error,
\* nothing being validated or saved
C3_SizeExceeded ==
    (InCapture /\ pc = "done" /\ end_cause = "bound"
       /\ ~In(PNGSignature, image_data)) =>
        /\ Reads = 300
        /\ result = CommandError("size_exceeded")
        /\ ~file.exists

\* C3 amended: when no read came back empty or timed out and the buffer never
\* held the signature, the code after the loop is reached only by the chunk
\* bound, after exactly 300 reads; the buffer is then validated like any
\* other: under 1000 bytes the capture fails as too small, otherwise the
\* buffer is saved unchanged, and the only other failure is that of the file
C3_BoundThenValidate ==
    (Accumulated /\ end_cause \notin {"empty", "timeout"}
       /\ ~In(PNGSignature, image_data)) =>
        /\ end_cause = "bound"
        /\ Reads = 300
        /\ pc \in {"validate", "save", "done"}
        /\ pc = "save" => final_image = image_data
        /\ pc = "done" =>
              IF BLen(image_data) < 1000
              THEN result = CommandError("too_small") /\ ~file.exists
              ELSE \/ result = Complete /\ file.exists /\ file.data = image_data
                   \/ result = CommandError("file_write")

C3_Witness ==
    /\ Accumulated
    /\ pc = "done"
    /\ end_cause = "bound"
    /\ ~In(PNGSignature, image_data)
    /\ Reads = 300
    /\ result = Complete
    /\ file.data = image_data

\* C4: a chunk read that returns nothing or times out leaves the buffer as it
\* is, raises nothing and hands over to validation; a capture whose
\* accumulation ended that way never fails for a read error, and fails as
\* too small exactly when its buffer is under 1000 bytes
C4_QuietReadEndsAccumulation ==
    /\ [][(pc = "reading" /\ Len(oplog') = Len(oplog) + 1
             /\ oplog'[Len(oplog')].outcome \in {"empty", "VI_ERROR_TMO"}) =>
            (pc' = "validate" /\ image_data' = image_data
               /\ result' = NoResult)]_vars
    /\ []((Accumulated /\ end_cause \in {"empty", "timeout"}
             /\ pc = "done") =>
            /\ result \in {Complete, CommandError("too_small"),
                           CommandError("file_write")}
            /\ (result = CommandError("too_small"))
                  <=> (BLen(image_data) < 1000))

C4_Witness ==
    /\ Accumulated
    /\ pc = "done"
    /\ end_cause = "timeout"
    /\ In(PNGSignature, image_data)
    /\ result = Complete

\* the bytes a capture hands over: final_image once extracted, the file's
\* content once saved
Delivered == IF pc = "save" THEN final_image ELSE file.data

\* C5: the image delivered by a capture that passed validation is the buffer
\* itself when the signature does not occur in it, and otherwise the suffix
\* of the buffer that starts with the signature and is preceded by no
\* complete signature
C5_ImageFromFirstSignature ==
    (InCapture /\ (pc = "save" \/ (pc = "done" /\ result = Complete))) =>
        LET cut == BLen(image_data) - BLen(Delivered) IN
        IF In(PNGSignature, image_data)
        THEN /\ cut >= 0
             /\ Delivered = SliceFrom(image_data, cut)
             /\ SliceTo(Delivered, Len(PNGSignature)) = FromBytes(PNGSignature)
             /\ ~In(PNGSignature,
                    SliceTo(image_data, cut + Len(PNGSignature) - 1))
        ELSE Delivered = image_data

C5_Witness ==
    /\ InCapture
    /\ pc = "done"
    /\ result = Complete
    /\ In(PNGSignature, image_data)
    /\ In(IENDMarker, image_data)
    /\ BLen(file.data) < BLen(image_data)
    /\ SliceTo(file.data, Len(PNGSignature)) = FromBytes(PNGSignature)

\* C6: a buffer under 1000 bytes when validation starts never gets as far as
\* extraction, and the capture ends with the payload-too-small error,
\* whichever way accumulation ended
C6_TooSmallFails ==
    /\ (InCapture /\ pc = "save") => BLen(image_data) >= 1000
    /\ (Accumulated /\ pc = "done" /\ BLen(image_data) < 1000) =>
          /\ result = CommandError("too_small")
          /\ ~file.exists

C6_Witness ==
    /\ Accumulated
    /\ pc = "done"
    /\ end_cause = "bound"
    /\ BLen(image_data) < 1000
    /\ result = CommandError("too_small")

\* C9: a capture issues *CLS, *OPC?, DISP:DATA? once each, in that order,
\* then one read per loop iteration; an operation that failed is the last
\* operation of the call
C9_NoRetryInsideCapture ==
    InCapture =>
        /\ \A i \in 1..Len(oplog) :
              /\ i = 1 => (oplog[i].op = "write" /\ oplog[i].arg = "*CLS")
              /\ i = 2 => (oplog[i].op = "query" /\ oplog[i].arg = "*OPC?")
              /\ i = 3 => (oplog[i].op = "write" /\ oplog[i].arg = "DISP:DATA?")
              /\ i > 3 => oplog[i].op = "read_bytes"
              /\ oplog[i].outcome \notin {"ok", "data"} => i = Len(oplog)
        /\ pc = "reading" => Reads = attempt
        /\ Reads <= attempt + 1

C9_Witness ==
    /\ InCapture
    /\ pc = "done"
    /\ Len(oplog) = 2
    /\ oplog[2].outcome = "error"
    /\ result = CommandError("opc_query")

\* C10: a capture never makes more than 300 chunk reads, and every capture
\* that has been started ends, returning or raising
C10_CaptureTerminates ==
    /\ [](InCapture =>
            /\ Reads <= 300
            /\ pc = "done" => result.kind \in {"returned", "raised"})
    /\ (InCapture ~> (InCapture /\ pc = "done"))

C10_Witness ==
    /\ InCapture
    /\ pc = "done"
    /\ Reads = 300
    /\ end_cause = "bound"

----------------------------------------------------------------------------
(* Claims about the sample decoder and the time axis *)

\* the descriptor the functions were given
Descriptor == preamble.value

\* both functions have been applied to the descriptor and the buffer
Decoded == wpc = "decode" /\ voltage_data # NoResult /\ time_data # NoResult

\* C11: a buffer whose length differs from point_count * sample_width is
\* refused with an error and never decoded to some other number of samples;
\* a buffer of exactly that length decodes to point_count voltages and
\* point_count timestamps, none at all for point_count = 0.  (Stated for
\* the two binary formats, and for references that fit the sample type.)
C11_LengthChecked ==
    (Decoded /\ Descriptor.format \in {0, 1}) =>
        IF BLen(raw_data) # Descriptor.points * SampleWidth(Descriptor.format)
        THEN voltage_data.kind = "raised"
        ELSE InRange(Descriptor.y_reference, 8 * SampleWidth(Descriptor.format))
             => /\ voltage_data.kind = "returned"
                /\ Len(voltage_data.value) = Descriptor.points
                /\ Len(time_data.value) = Descriptor.points

\* the sample codes the buffer holds in the descriptor's format
Codes ==
    IF Descriptor.format = 0 THEN frombuffer_int8(Expand(raw_data))
    ELSE frombuffer_int16(Expand(raw_data))

\* C13: every sample code c of the buffer decodes to
\* (c - y_reference) * y_increment + y_origin with the difference taken in
\* the integers, never reduced modulo 2^8 or 2^16, whatever the integer
\* y_reference is (stated of the voltages the decoder returns)
C13_AffineWithoutWrap ==
    (/\ wpc = "decode"
     /\ voltage_data.kind = "returned"
     /\ Descriptor.format \in {0, 1})
    => voltage_data =
          Value([i \in 1..Len(Codes.value) |->
                         Scale(Codes.value[i] - Descriptor.y_reference,
                               Descriptor)])

\* point_count as the number of indices in [0, point_count)
PointCount == IF Descriptor.points > 0 THEN Descriptor.points ELSE 0

----------------------------------------------------------------------------
(* Claims about the preamble parser *)

\* the comma-separated fields of the answer
Parts == split(strip(preamble_str), ",")

\* the number of fields, counted by the commas
FieldCount ==
    1 + Cardinality({i \in 1..Len(strip(preamble_str)) :
                        strip(preamble_str)[i] = ","})

\* each of the first ten fields parses as the number its place calls for: an
\* integer for format, type, points, count, x_reference and y_reference, a
\* real for the others
AllParse == \A i \in 1..10 : Field(Parts, i).ok

\* C14: parsing fails with the malformed-preamble error (a ValueError) when
\* the preamble has fewer than 10 comma-separated fields or a numeric field
\* does not parse as the number its place calls for; with 10 or more fields
\* that all parse it succeeds, and the first 10 fields are mapped by position
C14_MalformedOrMapped ==
    wpc = "parsed" =>
        IF FieldCount < 10 \/ ~AllParse
        THEN preamble.kind = "raised" /\ preamble.exc = "ValueError"
        ELSE /\ preamble.kind = "returned"
             /\ preamble.value.format = int(Parts[1]).v
             /\ preamble.value.type = int(Parts[2]).v
             /\ preamble.value.points = int(Parts[3]).v
             /\ preamble.value.count = int(Parts[4]).v
             /\ preamble.value.x_increment = float(Parts[5]).v
             /\ preamble.value.x_origin = float(Parts[6]).v
             /\ preamble.value.x_reference = int(Parts[7]).v
             /\ preamble.value.y_increment = float(Parts[8]).v
             /\ preamble.value.y_origin = float(Parts[9]).v
             /\ preamble.value.y_reference = int(Parts[10]).v

\* a preamble of more than ten fields has been parsed to a descriptor
C14_Witness ==
    /\ wpc = "parsed"
    /\ FieldCount > 10
    /\ preamble.kind = "returned"
    /\ preamble.value.points = 4
    /\ preamble.value.count = 1

----------------------------------------------------------------------------
(* Claims about get_waveform_data *)

\* get_waveform_data has ended
WaveEnded == wpc = "done"

\* the last command sent failed in all its attempts
TransportFailed ==
    wavelog # <<>> /\ wavelog[Len(wavelog)].outcome = "raised"

\* C12: whenever get_waveform_data returns, its 'time' and 'voltage'
\* sequences have the same length
C12_SameLength ==
    (WaveEnded /\ wave_result.kind = "returned") =>
        Len(wave_result.value.time) = Len(wave_result.value.voltage)

\* C15: a preamble whose format code is 2 is rejected by the preamble parser,
\* so that no descriptor with format code 2 exists to be handed to the
\* sample decoder
C15_ParserRejectsAscii ==
    preamble.kind = "returned" => preamble.value.format # 2

\* C15, as the code has it: the parser accepts format code 2 like any
\* integer; the decoder is called with the descriptor and refuses it with
\* the unsupported-format error, so the request fails and returns no samples
C15_DecoderRejectsAscii ==
    (preamble.kind = "returned" /\ preamble.value.format = 2) =>
        /\ voltage_data \in {NoResult, ValueError("Unsupported data format")}
        /\ time_data = NoResult
        /\ wave_result.kind # "returned"
        /\ (WaveEnded /\ ~TransportFailed) =>
              /\ voltage_data = ValueError("Unsupported data format")
              /\ wave_result = DataError(voltage_data)

\* the decoder has been called with a format-2 descriptor and has refused it
C15_Witness ==
    /\ WaveEnded
    /\ preamble.kind = "returned"
    /\ preamble.value.format = 2
    /\ raw_data # <<>>
    /\ voltage_data = ValueError("Unsupported data format")
    /\ wave_result = DataError(ValueError("Unsupported data format"))

\* what the parser and the decoder raise for corrupt data
CorruptDataErrors ==
    { ValueError("Invalid preamble format"),
      ValueError("invalid literal for int()"),
      ValueError("could not convert string to float"),
      ValueError("Unsupported data format"),
      ValueError("buffer size must be a multiple of element size") }

\* C16: a request that fails for a transport failure surfaces as an error
\* outcome other than the one a corrupt-data failure (malformed preamble,
\* unsupported format, bad length) surfaces as
C16_FailureKindsApart ==
    (WaveEnded /\ wave_result.kind = "raised" /\ TransportFailed) =>
        \A e \in CorruptDataErrors : wave_result.exc # DataError(e).exc

\* C16, as the code has it: every failure inside a waveform request, of the
\* transport and of the data alike, surfaces as DataError, and every failure
\* of a screenshot request as CommandError; only the error wrapped inside
\* tells the kinds apart
C16_OneErrorTypePerRequest ==
    /\ (WaveEnded /\ wave_result.kind = "raised" /\ ValidChannel(channel)) =>
          /\ wave_result.exc = "DataError"
          /\ IF TransportFailed
             THEN wave_result.cause \in {CommandError(e) : e \in IoErrors}
             ELSE wave_result.cause.exc \in {"ValueError", "OverflowError"}
    /\ (pc = "done" /\ result.kind = "raised") => result.exc = "CommandError"

\* a waveform request has failed in transport and surfaced as DataError
C16_Witness ==
    /\ WaveEnded
    /\ TransportFailed
    /\ wave_result = DataError(CommandError("VI_ERROR_IO"))

----------------------------------------------------------------------------
(* Claims about the constructor and the with statement *)

\* the constructor has returned or raised
Constructed == lpc \notin {"new", "verify"}

\* a connection type other than 'usb' and 'ethernet', or 'ethernet' with no
\* IP address
InvalidArguments ==
    \/ connection_type \notin {usb, ethernet}
    \/ connection_type = ethernet /\ ~Given(ip_address)

\* C17: constructing the object with invalid connection arguments raises
\* ValueError (where pyvisa is installed and its backend loads)
C17_InvalidArgumentsValueError ==
    (Constructed /\ world.pyvisa /\ world.backend /\ InvalidArguments) =>
        link_result.kind = "raised" /\ link_result.exc = "ValueError"

\* USB auto-detection has run and found no device
AutoDetectFoundNone ==
    /\ world.pyvisa
    /\ world.backend
    /\ connection_type = usb
    /\ ~Given(resource_string)
    /\ world.found = 0

\* the opened device has answered *IDN? without 'DHO914S' in the answer
WrongIdentity ==
    /\ result.kind = "returned"
    /\ ~Contains(result.value.s, <<"D", "H", "O", "9", "1", "4", "S">>)

\* C18: the constructor raises ConnectionError when USB auto-detection finds
\* no device and when the opened device's identity lacks 'DHO914S'; in
\* neither case does it return an object
C18_ConnectionErrorRaised ==
    (Constructed /\ (AutoDetectFoundNone \/ WrongIdentity)) =>
        /\ lpc = "failed"
        /\ link_result.kind = "raised"
        /\ link_result.exc = "ConnectionError"

\* the constructor has refused a device of another model
C18_Witness ==
    /\ lpc = "failed"
    /\ WrongIdentity
    /\ instrument = "open"
    /\ link_result.exc = "ConnectionError"

\* C19: once the with block has been left, normally or by an exception of
\* its body, the instrument and the resource manager have both been closed
C19_BothClosedOnExit ==
    lpc = "left" =>
        /\ body \in {"normal", "exception"}
        /\ instrument = "closed"
        /\ resource_manager = "closed"

\* the with block has been left by an exception and both are closed
C19_Witness ==
    /\ lpc = "left"
    /\ body = "exception"
    /\ instrument = "closed"
    /\ resource_manager = "closed"

----------------------------------------------------------------------------
(* Further claims about take_screenshot *)

\* the bytes of the buffer from its first signature on
FromSignature == SliceFrom(image_data, find(image_data, PNGSignature))

\* C21: the read loop is left early, before an empty read, a timeout or the
\* chunk bound, only when the buffer holds the start signature and an end
\* marker at or after it; an end marker lying only before the signature
\* does not end the accumulation
C21_EndMarkerAfterSignature ==
    (InCapture /\ end_cause = "marker") =>
        /\ In(PNGSignature, image_data)
        /\ In(IENDMarker, FromSignature)


\* C22: the image a successful capture delivers, the bytes kept once what
\* precedes the signature is dropped, has at least the minimum plausible
\* size of 1000 bytes
C22_DeliveredImageNotTooSmall ==
    (InCapture /\ pc = "done" /\ result = Complete) =>
        BLen(file.data) >= MinImageSize


\* the phase a capture is in: 1 requesting, 2 accumulating, 3 validating,
\* 4 ended
Phase ==
    CASE pc \in {"cls", "opc", "request"} -> 1
      [] pc = "reading" -> 2
      [] pc \in {"validate", "save"} -> 3
      [] pc = "done" -> 4
      [] OTHER -> 0

\* C23: a capture goes through its phases in the order requesting,
\* accumulating, validating, ended, never backwards: it starts by requesting,
\* every chunk read is made while accumulating and after the DISP:DATA?
\* write has succeeded, no chunk is read once validation has begun, and the
\* call ends either having returned (complete) or having raised CommandError
\* (failed), never both and never neither
C23_PhasesInOrder ==
    /\ [][/\ (~InCapture /\ InCapture') => (Phase' = 1 /\ oplog' = <<>>)
          /\ (InCapture /\ InCapture') =>
                /\ Phase' >= Phase
                /\ Reads' # Reads => (Phase = 2 /\ Reads' = Reads + 1)]_vars
    /\ [](InCapture =>
            /\ \A i \in 1..Len(oplog) :
                  oplog[i].op = "read_bytes" =>
                      \E j \in 1..(i - 1) :
                          /\ oplog[j].op = "write"
                          /\ oplog[j].arg = "DISP:DATA?"
                          /\ oplog[j].outcome = "ok"
            /\ Phase < 2 => Reads = 0
            /\ (pc = "done") <=> (result # NoResult)
            /\ pc = "done" =>
                  (result = Complete)
                     # (result.kind = "raised" /\ result.exc = "CommandError"))

C23_Witness ==
    /\ InCapture
    /\ pc = "done"
    /\ result = Complete
    /\ end_cause = "marker"
    /\ Reads >= 2


----------------------------------------------------------------------------
(* Further claims about the preamble parser *)

\* C24: every descriptor the parser returns has points >= 0; a preamble
\* whose points field is negative is not accepted
C24_PointCountNotNegative ==
    (wpc = "parsed" /\ preamble.kind = "returned") =>
        preamble.value.points >= 0


----------------------------------------------------------------------------
(* Further claims about get_waveform_data *)

\* the places of the command in the log of the request
Issued(c) == {i \in 1..Len(wavelog) : wavelog[i].cmd = c}

\* C25: a preamble or block the parser or the decoder refuses fails the
\* request at once: the preamble query and the data query are each made at
\* most once per request and, once one has been answered, it is not under
\* way again and the instrument has answered it exactly once; a refusal by
\* the parser ends the request with DataError before any data query, a
\* refusal by the decoder ends it with DataError too
C25_NoSecondQuery ==
    /\ \A c \in {"WAV:PRE?", "WAV:DATA?"} :
          /\ Cardinality(Issued(c)) <= 1
          /\ Issued(c) # {} => cmd # c
          /\ (cmd = c /\ pc = "back" /\ result.kind = "returned") =>
                /\ oplog[Len(oplog)].outcome = "ok"
                /\ \A i \in 1..(Len(oplog) - 1) : oplog[i].outcome # "ok"
    /\ preamble.kind = "raised" =>
          /\ WaveEnded
          /\ wave_result = DataError(preamble)
          /\ Issued("WAV:DATA?") = {}
    /\ voltage_data.kind = "raised" =>
          /\ WaveEnded
          /\ wave_result = DataError(voltage_data)

\* both queries were answered and the decoder refused the block
C25_Witness ==
    /\ WaveEnded
    /\ Issued("WAV:PRE?") # {}
    /\ Issued("WAV:DATA?") # {}
    /\ voltage_data.kind = "raised"
    /\ wave_result = DataError(voltage_data)


----------------------------------------------------------------------------
(* Further claims about the connection settings *)

\* C26: no text query is issued while the connection is in binary mode: at
\* every instrument.query call, inside a capture and after one, the read
\* terminator is the line feed and not None
C26_QueriesInTextMode ==
    \A i \in 1..Len(oplog) :
        oplog[i].op = "query" => oplog[i].term = LF


----------------------------------------------------------------------------
(* Further claims about the read loop of take_screenshot *)

\* the step is a chunk read that returned bytes
DataRead ==
    /\ InCapture
    /\ pc = "reading"
    /\ Len(oplog') = Len(oplog) + 1
    /\ oplog'[Len(oplog')].outcome = "data"

\* C27: a signature or an end marker whose bytes are spread over two or more
\* consecutive chunks is detected as if it had come in one chunk: after each
\* read the loop is left for a complete image exactly when all bytes read so
\* far, taken together, hold the signature and the end marker, and the image
\* is cut at the signature exactly when the whole buffer holds it
C27_DetectionOnWholeBuffer ==
    /\ [][DataRead =>
            ((pc' = "validate" /\ end_cause' = "marker")
               <=> (In(PNGSignature, image_data')
                      /\ In(IENDMarker, image_data')))]_vars
    /\ []((InCapture /\ pc = "save") =>
            IF In(PNGSignature, image_data)
            THEN SliceTo(final_image, Len(PNGSignature))
                    = FromBytes(PNGSignature)
            ELSE final_image = image_data)

\* three reads brought the twelve bytes of signature and end marker, so one
\* of the two came in two pieces, and the loop was left on the third
C27_Witness ==
    /\ InCapture
    /\ end_cause = "marker"
    /\ Reads = 3
    /\ image_data = FromBytes(PNGSignature \o IENDMarker)


\* the last operation of the capture was a chunk read that failed with an
\* I/O error other than a timeout
ReadFailed ==
    /\ InCapture
    /\ oplog # <<>>
    /\ oplog[Len(oplog)].op = "read_bytes"
    /\ oplog[Len(oplog)].outcome \in IoErrors \ {"VI_ERROR_TMO"}

\* C28: a chunk read that fails with an I/O error other than a timeout ends
\* the capture as failed, CommandError being raised to the caller; unlike
\* after a timeout, the bytes accumulated before the error are neither
\* validated nor saved
C28_ReadErrorFailsCapture ==
    ReadFailed =>
        /\ pc = "done"
        /\ result = CommandError("read_error")
        /\ end_cause = "none"
        /\ final_image = <<>>
        /\ ~file.exists

\* the read failed after bytes enough to pass validation had been accumulated
C28_Witness ==
    /\ ReadFailed
    /\ pc = "done"
    /\ result = CommandError("read_error")
    /\ BLen(image_data) >= MinImageSize
    /\ In(PNGSignature, image_data)


\* the failures of a capture that precede its save step
FailuresBeforeSave ==
    { CommandError(c) :
        c \in {"cls_write", "opc_query", "request_write", "read_error",
               "too_small"} }

\* C29: a capture that fails before the save step, for a command that
\* failed, a read error or a payload too small, has neither opened nor
\* written the output file; the file is touched only in the save step, after
\* the accumulation has ended and the size check has passed
C29_NoFileBeforeSave ==
    /\ [][(InCapture /\ file' # file /\ InCapture') =>
            /\ pc = "save"
            /\ Accumulated
            /\ BLen(image_data) >= MinImageSize]_vars
    /\ []((InCapture /\ pc # "done") => file = NoFile)
    /\ []((InCapture /\ pc = "done" /\ result \in FailuresBeforeSave) =>
            file = NoFile)

\* the capture failed at the size check with nothing written
C29_Witness ==
    /\ InCapture
    /\ pc = "done"
    /\ result = CommandError("too_small")
    /\ image_data # <<>>
    /\ file = NoFile


\* the commands of a request for the channel and the points it was given
Order ==
    <<"WAV:SOUR CHAN" \o ToString(channel), "WAV:FORM BYTE", "WAV:MODE NORM">>
    \o (IF points.t = "int" /\ points.v # 0
        THEN <<"WAV:STAR 1", "WAV:STOP " \o ToString(points.v)>>
        ELSE <<>>)
    \o <<"WAV:PRE?", "WAV:DATA?">>

\* the commands the request has issued so far, the one under way included
Sent ==
    [i \in 1..Len(wavelog) |-> wavelog[i].cmd]
    \o (IF cmd # NoCommand THEN <<cmd>> ELSE <<>>)

\* C30: get_waveform_data issues its commands in one fixed order: source,
\* format, mode, start and stop when points were asked for, preamble query,
\* data query; a command is given up only after max_retries + 1 failed
\* attempts, and then none of the later commands is issued and the request
\* fails with DataError
C30_FixedOrderStopsAtFailure ==
    /\ Len(Sent) <= Len(Order)
    /\ Sent = SubSeq(Order, 1, Len(Sent))
    /\ (pc = "back" /\ func # "none" /\ result.kind = "raised") =>
          /\ Len(oplog) = max_retries + 1
          /\ \A i \in 1..Len(oplog) : oplog[i].outcome \in IoErrors
    /\ \A i \in 1..Len(wavelog) :
          wavelog[i].outcome = "raised" =>
              /\ i = Len(wavelog)
              /\ cmd = NoCommand
              /\ WaveEnded
              /\ wave_result.kind = "raised"
              /\ wave_result.exc = "DataError"
              /\ wave_result.cause \in {CommandError(e) : e \in IoErrors}

\* the start write failed in all its attempts and the request ended there
C30_Witness ==
    /\ WaveEnded
    /\ Len(wavelog) = 4
    /\ wavelog[4] = [cmd |-> "WAV:STAR 1", outcome |-> "raised"]
    /\ wave_result.exc = "DataError"

====
